---- MODULE Spec2Model ----
(***************************************************************************)
(* Process-supervision loops of the watchdog repository.                   *)
(*                                                                         *)
(*   prog = "guardian"  WatchdogGuardian.run        (watchdog_guardian.py) *)
(*   prog = "monitor"   WatchdogMonitor.monitor_loop (watchdog_monitor.py) *)
(*   prog = "limiter"   the two admission checks applied as pure functions *)
(*                      to arbitrary restart histories                     *)
(*   prog = "scanner"   check_process_exists applied to arbitrary process  *)
(*                      tables                                             *)
(*                                                                         *)
(* Time is an integer clock `now`.  time.sleep(d) advances it by d; every  *)
(* other statement takes no time.  All durations are in clock ticks.  The  *)
(* durations and limits of the scripts are configuration values; the model *)
(* runs a scaled-down configuration (the source values are in comments).   *)
(***************************************************************************)
EXTENDS Integers, Sequences, FiniteSets, TLC

VARIABLES
    prog,              \* which script runs
    pc,                \* position of the main thread in its loop
    now,               \* wall clock (datetime.now() / time.time())
    restart_times,     \* WatchdogGuardian.restart_times
    restart_history,   \* WatchdogMonitor.restart_history
    restart_count,     \* run() local restart_count / WatchdogMonitor.restart_count
    process,           \* WatchdogGuardian.process: 0 is None, else the pid
    workers,           \* pids of the worker processes that are alive
    hung,              \* pids of the workers that stopped making progress
    launches,          \* times of the successful Popen calls; pid = index
    sent,              \* the last stop: its target and the signals sent to it
    stop_dialog_killer,\* WatchdogGuardian.stop_dialog_killer
    dialog_killer,     \* position of the DialogKiller thread
    error_dialog,      \* an error dialog window is open on the desktop
    running,           \* WatchdogMonitor.running
    heartbeat,         \* the heartbeat file read at the last probe and the
                       \* (ok, message) check_heartbeat() made of it
    notification,      \* last call of send_restart_notification
    lastAdmit,         \* the last admission decision: input, time, verdict
    interrupts,        \* where each KeyboardInterrupt found the main thread
    faults,            \* exceptions raised so far, KeyboardInterrupt aside
    scan               \* a process table and what check_process_exists()
                       \* returned for it

vars == <<prog, pc, now, restart_times, restart_history, restart_count,
          process, workers, hung, launches, sent, stop_dialog_killer,
          dialog_killer, error_dialog, running,
          heartbeat, notification, lastAdmit, interrupts, faults, scan>>

----------------------------------------------------------------------------
(* Bounds and configuration *)

\* the clock stops here
MaxTime == 10
\* KeyboardInterrupts delivered in one run
MaxInterrupts == 2
\* worker processes alive at once
MaxWorkers == 2
\* exceptions other than KeyboardInterrupt raised in one run (by Popen, by
\* a statement of the loop body)
MaxFaults == 2
\* longest history given to the admission checks in the "limiter" program
MaxHist == 3
\* timedelta(hours=1) and time.sleep(3600), in ticks (source: 3600 s)
OneHour == 6
\* WatchdogGuardian.restart_delay (source default: 5 s)
restart_delay == 2
\* WatchdogGuardian.max_restarts_per_hour (source default: 10)
g_max_restarts_per_hour == 2
\* WatchdogMonitor.max_restarts_per_hour (source: 5)
m_max_restarts_per_hour == 2
\* WatchdogMonitor.check_interval (source: 60 s)
check_interval == 1
\* WatchdogMonitor.heartbeat_timeout (source: 120 s)
heartbeat_timeout == 2
\* time.sleep(30) after a successful restart (source: 30 s)
stabilize_sleep == 1
\* proc.wait(timeout=10) (source: 10 s)
terminate_timeout == 1
\* time.sleep(1) of the guardian's polling loop
poll_sleep == 1
\* time.sleep(2) between terminate() and kill() in the guardian
kill_wait == 2
\* time.time() at the start of the run: the Unix time 0 lies Epoch ticks
\* before the clock value 0 (source: about 1.7e9 s)
Epoch == 20
\* how far ahead of the monitor's clock a heartbeat timestamp can be
MaxSkew == 1
\* entries of the process table given to the scan in the "scanner" program
MaxProcs == 3

None == 0
NoStop == [pid |-> None, signals |-> <<>>]
NoAdmit == [by |-> "none", before |-> <<>>, at |-> 0, denied |-> FALSE,
            launched |-> 0]
NoNotification == [kind |-> "none", pid |-> None, delivered |-> FALSE]
NoHeartbeat == [kind |-> "unread", timestamp |-> 0, ok |-> FALSE,
                msg |-> "none"]
NoMatch == [exists |-> FALSE, pid |-> None]
NoScan == [table |-> <<>>, result |-> NoMatch]

----------------------------------------------------------------------------
(* RestartLimiter: the sliding window *)

\* t > one_hour_ago
InWindowInclusive(t, cur) == t >= cur - OneHour
InWindow(t, cur) == t > cur - OneHour

\* [t for t in history if t > one_hour_ago]
Prune(history, cur) == SelectSeq(history, LAMBDA t : InWindow(t, cur))

\* WatchdogGuardian.is_too_many_restarts: the pruned list and the verdict
IsTooManyOffByOne(times, cur) ==
    [times |-> Prune(times, cur),
     too_many |-> Len(Prune(times, cur)) > g_max_restarts_per_hour]
is_too_many_restarts(times, cur) ==
    [times |-> Prune(times, cur),
     too_many |-> Len(Prune(times, cur)) >= g_max_restarts_per_hour]

\* check_restart_limit that forgets the history when it denies
CheckRestartLimitClears(history, cur) ==
    [history |-> IF Len(Prune(history, cur)) >= m_max_restarts_per_hour
                 THEN <<>> ELSE Prune(history, cur),
     can_restart |-> ~(Len(Prune(history, cur)) >= m_max_restarts_per_hour)]

\* WatchdogMonitor.check_restart_limit: the pruned list and can_restart
check_restart_limit(history, cur) ==
    [history |-> Prune(history, cur),
     can_restart |-> ~(Len(Prune(history, cur)) >= m_max_restarts_per_hour)]

----------------------------------------------------------------------------
(* Helpers shared by the programs *)

\* one of the two supervisor scripts runs
Supervising == prog \in {"guardian", "monitor"}

\* time.sleep(d): the clock advances by d
CanSleep(d) == now + d <= MaxTime

\* subprocess.Popen succeeded: a new worker process with a fresh pid
NewPid == Len(launches) + 1
CanLaunch == Cardinality(workers) < MaxWorkers

\* chronological histories with at most n events, none in the future
RECURSIVE Histories(_, _)
Histories(n, cur) ==
    IF n = 0 THEN {<<>>}
    ELSE LET shorter == Histories(n - 1, cur)
         IN  shorter \cup
             {Append(h, t) : h \in {g \in shorter : Len(g) = n - 1},
                             t \in 0..cur}

IsChronological(h) == \A i \in 1..(Len(h) - 1) : h[i] <= h[i + 1]

----------------------------------------------------------------------------
(* Environment: the worker processes *)

\* a worker exits on its own: it crashes, finishes, or obeys a terminate()
WorkerExit ==
    /\ Supervising
    /\ pc # "Stopped"
    /\ \E p \in workers : workers' = workers \ {p}
    /\ UNCHANGED <<prog, pc, now, restart_times, restart_history,
                   restart_count, process, hung, launches, sent,
                   stop_dialog_killer, dialog_killer, error_dialog,
                   running, heartbeat, notification,
                   lastAdmit, interrupts, faults, scan>>

\* a worker becomes unresponsive: it keeps running and makes no progress.
\* The monitor learns of it from the heartbeat file it reads at a probe;
\* the guardian only has poll().
WorkerHangs ==
    /\ prog = "guardian"
    /\ pc # "Stopped"
    /\ \E p \in workers \ hung : hung' = hung \cup {p}
    /\ UNCHANGED <<prog, pc, now, restart_times, restart_history,
                   restart_count, process, workers, launches, sent,
                   stop_dialog_killer, dialog_killer, error_dialog,
                   running, heartbeat, notification,
                   lastAdmit, interrupts, faults, scan>>

----------------------------------------------------------------------------
(* WatchdogGuardian.run *)

G_at(label) == prog = "guardian" /\ pc = label

\* the frame of a guardian step: what run() never touches
G_Frame == UNCHANGED <<prog, restart_history, running, heartbeat, notification,
                       hung, dialog_killer, error_dialog, scan>>

\* start_watchdog() returns True: self.process is the new Popen object
G_StartOk ==
    /\ G_at("Starting")
    /\ CanLaunch
    /\ process' = NewPid
    /\ workers' = workers \cup {NewPid}
    /\ launches' = Append(launches, now)
    /\ pc' = "Running"
    /\ G_Frame
    /\ UNCHANGED faults
    /\ UNCHANGED <<now, restart_times, restart_count, sent,
                   stop_dialog_killer, lastAdmit, interrupts>>

\* a failed start that is recorded as a restart
G_StartFailRecords ==
    /\ G_at("Starting")
    /\ pc' = "StartRetry"
    /\ restart_times' = Append(restart_times, now)
    /\ G_Frame
    /\ faults < MaxFaults
    /\ faults' = faults + 1
    /\ UNCHANGED <<now, restart_count, process, workers,
                   launches, sent, stop_dialog_killer, lastAdmit, interrupts>>

\* start_watchdog() returns False: Popen raised, self.process keeps its value
G_StartFail ==
    /\ G_at("Starting")
    /\ pc' = "StartRetry"
    /\ G_Frame
    /\ faults < MaxFaults
    /\ faults' = faults + 1
    /\ UNCHANGED <<now, restart_times, restart_count, process, workers,
                   launches, sent, stop_dialog_killer, lastAdmit, interrupts>>

\* continue without the sleep
G_StartRetryAtOnce ==
    /\ G_at("StartRetry")
    /\ pc' = "Starting"
    /\ G_Frame
    /\ UNCHANGED faults
    /\ UNCHANGED <<now, restart_times, restart_count, process, workers,
                   launches, sent, stop_dialog_killer, lastAdmit, interrupts>>

\* time.sleep(self.restart_delay); continue
G_StartRetrySleep ==
    /\ G_at("StartRetry")
    /\ CanSleep(restart_delay)
    /\ now' = now + restart_delay
    /\ pc' = "Starting"
    /\ G_Frame
    /\ UNCHANGED faults
    /\ UNCHANGED <<restart_times, restart_count, process, workers,
                   launches, sent, stop_dialog_killer, lastAdmit, interrupts>>

\* self.process.poll() is not None: break out of the inner loop
G_PollExited ==
    /\ G_at("Running")
    /\ process \notin workers
    /\ pc' = "Unhealthy"
    /\ G_Frame
    /\ UNCHANGED faults
    /\ UNCHANGED <<now, restart_times, restart_count, process, workers,
                   launches, sent, stop_dialog_killer, lastAdmit, interrupts>>

\* poll() is None: monitor_output(), then on to time.sleep(1)
G_PollAlive ==
    /\ G_at("Running")
    /\ process \in workers
    /\ pc' = "PollSleep"
    /\ G_Frame
    /\ UNCHANGED faults
    /\ UNCHANGED <<now, restart_times, restart_count, process, workers,
                   launches, sent, stop_dialog_killer, lastAdmit, interrupts>>

\* time.sleep(1) of the inner loop.  The clock stops at MaxTime: the polls
\* of a worker that is still running go on there, at the time MaxTime.
G_PollSleep ==
    /\ G_at("PollSleep")
    /\ now' = IF CanSleep(poll_sleep) THEN now + poll_sleep ELSE MaxTime
    /\ pc' = "Running"
    /\ G_Frame
    /\ UNCHANGED faults
    /\ UNCHANGED <<restart_times, restart_count, process, workers,
                   launches, sent, stop_dialog_killer, lastAdmit, interrupts>>

\* restart_count += 1; restart_times.append(now); is_too_many_restarts()
G_RecordRestart ==
    /\ G_at("Unhealthy")
    /\ LET recorded == Append(restart_times, now)
           verdict == is_too_many_restarts(recorded, now)
       IN  /\ restart_times' = verdict.times
           /\ lastAdmit' = [by |-> "guardian", before |-> recorded,
                            at |-> now, denied |-> verdict.too_many,
                            launched |-> Len(launches)]
           /\ pc' = IF verdict.too_many THEN "BackingOff" ELSE "Restarting"
    /\ restart_count' = restart_count + 1
    /\ G_Frame
    /\ UNCHANGED faults
    /\ UNCHANGED <<now, process, workers, launches, sent,
                   stop_dialog_killer, interrupts>>

\* time.sleep(3600); self.restart_times.clear(); continue
G_BackingOffShort ==
    /\ G_at("BackingOff")
    /\ CanSleep(restart_delay)
    /\ now' = now + restart_delay
    /\ restart_times' = <<>>
    /\ pc' = "Starting"
    /\ G_Frame
    /\ UNCHANGED faults
    /\ UNCHANGED <<restart_count, process, workers, launches, sent,
                   stop_dialog_killer, lastAdmit, interrupts>>
G_BackingOff ==
    /\ G_at("BackingOff")
    /\ CanSleep(OneHour)
    /\ now' = now + OneHour
    /\ restart_times' = <<>>
    /\ pc' = "Starting"
    /\ G_Frame
    /\ UNCHANGED faults
    /\ UNCHANGED <<restart_count, process, workers, launches, sent,
                   stop_dialog_killer, lastAdmit, interrupts>>

\* time.sleep(self.restart_delay) at the end of the cycle
G_RestartDelayNone ==
    /\ G_at("Restarting")
    /\ pc' = "Starting"
    /\ G_Frame
    /\ UNCHANGED faults
    /\ UNCHANGED <<now, restart_times, restart_count, process, workers,
                   launches, sent, stop_dialog_killer, lastAdmit, interrupts>>
G_RestartDelay ==
    /\ G_at("Restarting")
    /\ CanSleep(restart_delay)
    /\ now' = now + restart_delay
    /\ pc' = "Starting"
    /\ G_Frame
    /\ UNCHANGED faults
    /\ UNCHANGED <<restart_times, restart_count, process, workers,
                   launches, sent, stop_dialog_killer, lastAdmit, interrupts>>

\* the positions inside the try block of run().  start_watchdog() and
\* monitor_output() catch their own errors and no other statement of the
\* block raises, so KeyboardInterrupt is the one exception that leaves it.
G_TryPcs == {"Starting", "StartRetry", "Running", "PollSleep", "Unhealthy",
             "BackingOff", "Restarting"}

\* except KeyboardInterrupt: stop_dialog_killer_func(); terminate() if the
\* worker is still running, else break
G_KeyboardInterrupt ==
    /\ prog = "guardian"
    /\ pc \in G_TryPcs
    /\ Len(interrupts) < MaxInterrupts
    /\ interrupts' = Append(interrupts, pc)
    /\ stop_dialog_killer' = TRUE
    /\ IF process # None /\ process \in workers
       THEN /\ sent' = [pid |-> process, signals |-> <<"terminate">>]
            /\ pc' = "StopWait"
       ELSE /\ sent' = sent
            /\ pc' = "Stopped"
    /\ G_Frame
    /\ UNCHANGED faults
    /\ UNCHANGED <<now, restart_times, restart_count, process, workers,
                   launches, lastAdmit>>

\* a KeyboardInterrupt raised inside monitor_output() is caught by its bare
\* `except: pass`; the inner loop goes on to time.sleep(1)
G_InterruptInMonitorOutput ==
    /\ G_at("Running")
    /\ process \in workers
    /\ Len(interrupts) < MaxInterrupts
    /\ interrupts' = Append(interrupts, pc)
    /\ pc' = "PollSleep"
    /\ G_Frame
    /\ UNCHANGED faults
    /\ UNCHANGED <<now, restart_times, restart_count, process, workers,
                   launches, sent, stop_dialog_killer, lastAdmit>>

\* time.sleep(2); self.process.kill(); break -- without the second poll()
G_StopWaitKills ==
    /\ G_at("StopWait")
    /\ CanSleep(kill_wait)
    /\ now' = now + kill_wait
    /\ sent' = [sent EXCEPT !.signals = Append(@, "kill")]
    /\ workers' = workers \ {process}
    /\ pc' = "Stopped"
    /\ G_Frame
    /\ UNCHANGED faults
    /\ UNCHANGED <<restart_times, restart_count, process, launches,
                   stop_dialog_killer, lastAdmit, interrupts>>

\* time.sleep(2); if self.process.poll() is None: self.process.kill(); break
G_StopWait ==
    /\ G_at("StopWait")
    /\ CanSleep(kill_wait)
    /\ now' = now + kill_wait
    /\ IF process \in workers
       THEN /\ sent' = [sent EXCEPT !.signals = Append(@, "kill")]
            /\ workers' = workers \ {process}
       ELSE /\ sent' = sent
            /\ workers' = workers
    /\ pc' = "Stopped"
    /\ G_Frame
    /\ UNCHANGED faults
    /\ UNCHANGED <<restart_times, restart_count, process, launches,
                   stop_dialog_killer, lastAdmit, interrupts>>

\* what a step of the DialogKiller thread or of the desktop leaves alone
D_Frame == UNCHANGED <<prog, pc, now, restart_times, restart_history,
                       restart_count, process, workers, hung, launches, sent,
                       running, heartbeat, notification, lastAdmit,
                       interrupts, faults, scan>>

\* a crash of some program puts an error dialog on the desktop
DialogAppears ==
    /\ prog = "guardian"
    /\ pc # "Stopped"
    /\ ~error_dialog
    /\ error_dialog' = TRUE
    /\ UNCHANGED <<stop_dialog_killer, dialog_killer>>
    /\ D_Frame

\* the thread tests the stop flag and sets it for its next round
D_TestSetsFlag ==
    /\ prog = "guardian"
    /\ dialog_killer = "test"
    /\ dialog_killer' = IF stop_dialog_killer THEN "done" ELSE "enum"
    /\ stop_dialog_killer' = TRUE
    /\ UNCHANGED error_dialog
    /\ D_Frame

\* kill_error_dialogs(): while not self.stop_dialog_killer
D_Test ==
    /\ prog = "guardian"
    /\ dialog_killer = "test"
    /\ dialog_killer' = IF stop_dialog_killer THEN "done" ELSE "enum"
    /\ UNCHANGED <<stop_dialog_killer, error_dialog>>
    /\ D_Frame

\* user32.EnumWindows(enum_proc, 0): WM_CLOSE to every error dialog; then
\* time.sleep(2) and back to the test of the flag
D_EnumWindows ==
    /\ prog = "guardian"
    /\ dialog_killer = "enum"
    /\ error_dialog' = FALSE
    /\ dialog_killer' = "test"
    /\ UNCHANGED stop_dialog_killer
    /\ D_Frame

\* the thread fails to set itself up (ctypes, windll): the except of
\* kill_error_dialogs logs a warning and the thread ends
D_StartupError ==
    /\ prog = "guardian"
    /\ dialog_killer = "test"
    /\ pc = "Starting" /\ launches = <<>> /\ faults = 0
    /\ dialog_killer' = "done"
    /\ UNCHANGED <<stop_dialog_killer, error_dialog>>
    /\ D_Frame

G_Init ==
    /\ prog = "guardian"
    /\ pc = "Starting"
    /\ now = 0
    /\ restart_times = <<>>
    /\ restart_history = <<>>
    /\ restart_count = 0
    /\ process = None
    /\ workers = {}
    /\ hung = {}
    /\ launches = <<>>
    /\ sent = NoStop
    /\ stop_dialog_killer = FALSE
    /\ dialog_killer \in {"none", "test"}
    /\ error_dialog = FALSE
    /\ running = TRUE
    /\ heartbeat = NoHeartbeat
    /\ notification = NoNotification
    /\ lastAdmit = NoAdmit
    /\ interrupts = <<>>
    /\ faults = 0
    /\ scan = NoScan

----------------------------------------------------------------------------
(* WatchdogMonitor *)

M_at(label) == prog = "monitor" /\ pc = label

\* the frame of a monitor step: what monitor_loop() never touches
M_Frame == UNCHANGED <<prog, restart_times, process, stop_dialog_killer, hung,
                       dialog_killer, error_dialog, scan>>

\* check_process_exists(): some process runs the main script
check_process_exists == workers # {}

\* data.get("timestamp", 0): the value under the key, 0 (the Unix time 0)
\* when the key is missing.  Times are counted from the start of the run.
last_timestamp(file) ==
    IF file.kind = "no_timestamp" THEN 0 - Epoch ELSE file.timestamp

\* the statements of check_heartbeat() that raise: json.load on content that
\* is not JSON, data.get on JSON that is not an object, and the subtraction
\* on a timestamp that is not a number
HeartbeatRaises(file) ==
    file.kind \in {"unparsable", "not_object", "bad_timestamp"}

\* check_heartbeat() with staleness at elapsed >= timeout
CheckHeartbeatInclusive(file, cur) ==
    IF file.kind = "absent" THEN [ok |-> FALSE, msg |-> "missing"]
    ELSE IF HeartbeatRaises(file) THEN [ok |-> FALSE, msg |-> "unreadable"]
    ELSE IF cur - last_timestamp(file) >= heartbeat_timeout
         THEN [ok |-> FALSE, msg |-> "timeout"]
         ELSE [ok |-> TRUE, msg |-> "alive"]

\* check_heartbeat() with an except branch that lets the heartbeat pass
CheckHeartbeatLenient(file, cur) ==
    IF file.kind = "absent" THEN [ok |-> FALSE, msg |-> "missing"]
    ELSE IF HeartbeatRaises(file) THEN [ok |-> TRUE, msg |-> "unreadable"]
    ELSE IF cur - last_timestamp(file) > heartbeat_timeout
         THEN [ok |-> FALSE, msg |-> "timeout"]
         ELSE [ok |-> TRUE, msg |-> "alive"]

\* check_heartbeat(): (ok, message)
check_heartbeat(file, cur) ==
    IF file.kind = "absent" THEN [ok |-> FALSE, msg |-> "missing"]
    ELSE IF HeartbeatRaises(file) THEN [ok |-> FALSE, msg |-> "unreadable"]
    ELSE IF cur - last_timestamp(file) > heartbeat_timeout
         THEN [ok |-> FALSE, msg |-> "timeout"]
         ELSE [ok |-> TRUE, msg |-> "alive"]

\* what the monitor can find in the heartbeat file at time cur: no file,
\* content json.load rejects, JSON that is not an object, an object without
\* the key "timestamp", a timestamp that is not a number, or a timestamp the
\* worker wrote (by a clock that may run MaxSkew ahead)
HeartbeatFiles(cur) ==
    {[kind |-> k, timestamp |-> 0] :
        k \in {"absent", "unparsable", "not_object", "no_timestamp",
               "bad_timestamp"}}
    \cup {[kind |-> "ok", timestamp |-> t] :
             t \in {u \in (cur - heartbeat_timeout - 1)..(cur + MaxSkew) :
                       u >= 0}}

\* the file together with what the check made of it
Checked(file, cur) ==
    [kind |-> file.kind, timestamp |-> file.timestamp,
     ok |-> check_heartbeat(file, cur).ok,
     msg |-> check_heartbeat(file, cur).msg]

\* need_restart = not process_exists and not heartbeat_ok
M_ProbeAnd ==
    /\ M_at("Probe")
    /\ \E file \in HeartbeatFiles(now) :
          /\ heartbeat' = Checked(file, now)
          /\ LET need_restart == /\ ~check_process_exists
                                 /\ ~check_heartbeat(file, now).ok
             IN  pc' = IF need_restart THEN "Unhealthy" ELSE "CycleSleep"
    /\ M_Frame
    /\ UNCHANGED faults
    /\ UNCHANGED <<now, restart_history, restart_count, workers, launches,
                   sent, running, notification, lastAdmit, interrupts>>

\* one probe cycle: need_restart = not process_exists or not heartbeat_ok
M_Probe ==
    /\ M_at("Probe")
    /\ \E file \in HeartbeatFiles(now) :
          /\ heartbeat' = Checked(file, now)
          /\ LET need_restart == \/ ~check_process_exists
                                 \/ ~check_heartbeat(file, now).ok
             IN  pc' = IF need_restart THEN "Unhealthy" ELSE "CycleSleep"
    /\ M_Frame
    /\ UNCHANGED faults
    /\ UNCHANGED <<now, restart_history, restart_count, workers, launches,
                   sent, running, notification, lastAdmit, interrupts>>

\* restart_main_program(): can_restart, reason = self.check_restart_limit().
\* The results of the probe have been logged and are used no more.
M_CheckLimit ==
    /\ M_at("Unhealthy")
    /\ LET verdict == check_restart_limit(restart_history, now)
       IN  /\ restart_history' = verdict.history
           /\ lastAdmit' = [by |-> "monitor", before |-> restart_history,
                            at |-> now, denied |-> ~verdict.can_restart,
                            launched |-> Len(launches)]
           /\ pc' = IF verdict.can_restart THEN "Restarting" ELSE "Denied"
    /\ notification' = NoNotification
    /\ sent' = NoStop
    /\ heartbeat' = NoHeartbeat
    /\ M_Frame
    /\ UNCHANGED faults
    /\ UNCHANGED <<now, restart_count, workers, launches, running,
                   interrupts>>

\* if not can_restart: log; return False -- then "wait for the next check"
M_DeniedExits ==
    /\ M_at("Denied")
    /\ pc' = "Stopped"
    /\ running' = FALSE
    /\ M_Frame
    /\ UNCHANGED faults
    /\ UNCHANGED <<now, restart_history, restart_count, workers, launches,
                   sent, heartbeat, notification, lastAdmit, interrupts>>
M_Denied ==
    /\ M_at("Denied")
    /\ pc' = "CycleSleep"
    /\ M_Frame
    /\ UNCHANGED faults
    /\ UNCHANGED <<now, restart_history, restart_count, workers, launches,
                   sent, running, heartbeat, notification, lastAdmit,
                   interrupts>>

\* check_process_exists() finds nothing to terminate
M_StopNone ==
    /\ M_at("Restarting")
    /\ ~check_process_exists
    /\ pc' = "Launching"
    /\ M_Frame
    /\ UNCHANGED faults
    /\ UNCHANGED <<now, restart_history, restart_count, workers, launches,
                   sent, running, heartbeat, notification, lastAdmit,
                   interrupts>>

\* proc.terminate(); proc.wait(timeout=10) returns: the worker exited
M_StopExited ==
    /\ M_at("Restarting")
    /\ \E pid \in workers, d \in 0..terminate_timeout :
          /\ CanSleep(d)
          /\ now' = now + d
          /\ sent' = [pid |-> pid, signals |-> <<"terminate">>]
          /\ workers' = workers \ {pid}
    /\ pc' = "Launching"
    /\ M_Frame
    /\ UNCHANGED faults
    /\ UNCHANGED <<restart_history, restart_count, launches, running,
                   heartbeat, notification, lastAdmit, interrupts>>

\* proc.terminate(); proc.wait(timeout=10) raises TimeoutExpired: the
\* worker is still running; the error is logged and the restart goes on
M_StopTimeout ==
    /\ M_at("Restarting")
    /\ \E pid \in workers :
          sent' = [pid |-> pid, signals |-> <<"terminate">>]
    /\ CanSleep(terminate_timeout)
    /\ now' = now + terminate_timeout
    /\ pc' = "Launching"
    /\ M_Frame
    /\ UNCHANGED faults
    /\ UNCHANGED <<restart_history, restart_count, workers, launches,
                   running, heartbeat, notification, lastAdmit, interrupts>>

\* psutil.Process(pid) or proc.terminate() raises (AccessDenied): logged
M_StopError ==
    /\ M_at("Restarting")
    /\ \E pid \in workers : sent' = [pid |-> pid, signals |-> <<>>]
    /\ pc' = "Launching"
    /\ M_Frame
    /\ UNCHANGED faults
    /\ UNCHANGED <<now, restart_history, restart_count, workers, launches,
                   running, heartbeat, notification, lastAdmit, interrupts>>

\* the process found by the scan has exited before psutil.Process(pid) or
\* proc.terminate() gets at it: NoSuchProcess is raised and logged
M_StopVanished ==
    /\ M_at("Restarting")
    /\ \E pid \in workers :
          /\ sent' = [pid |-> pid, signals |-> <<>>]
          /\ workers' = workers \ {pid}
    /\ pc' = "Launching"
    /\ M_Frame
    /\ UNCHANGED faults
    /\ UNCHANGED <<now, restart_history, restart_count, launches,
                   running, heartbeat, notification, lastAdmit, interrupts>>

\* subprocess.Popen succeeds, and an error of the notifier is not caught in
\* send_restart_notification: it reaches the except of restart_main_program,
\* which reports the failure and returns False
M_LaunchOkNotifierRaises ==
    /\ M_at("Launching")
    /\ CanLaunch
    /\ workers' = workers \cup {NewPid}
    /\ launches' = Append(launches, now)
    /\ restart_count' = restart_count + 1
    /\ restart_history' = Append(restart_history, now)
    /\ \E delivered \in BOOLEAN :
          /\ notification' = [kind |-> "success", pid |-> NewPid,
                              delivered |-> delivered]
          /\ pc' = IF delivered THEN "Stabilize" ELSE "CycleSleep"
    /\ M_Frame
    /\ UNCHANGED faults
    /\ UNCHANGED <<now, sent, running, heartbeat, lastAdmit, interrupts>>

\* subprocess.Popen succeeds: count, record, notify, return True
M_LaunchOk ==
    /\ M_at("Launching")
    /\ CanLaunch
    /\ workers' = workers \cup {NewPid}
    /\ launches' = Append(launches, now)
    /\ restart_count' = restart_count + 1
    /\ restart_history' = Append(restart_history, now)
    /\ \E delivered \in BOOLEAN :
          notification' = [kind |-> "success", pid |-> NewPid,
                           delivered |-> delivered]
    /\ pc' = "Stabilize"
    /\ M_Frame
    /\ UNCHANGED faults
    /\ UNCHANGED <<now, sent, running, heartbeat, lastAdmit, interrupts>>

\* STARTUPINFO() or Popen raises: log, notify the failure, return False
M_LaunchFail ==
    /\ M_at("Launching")
    /\ \E delivered \in BOOLEAN :
          notification' = [kind |-> "failure", pid |-> None,
                           delivered |-> delivered]
    /\ pc' = "CycleSleep"
    /\ M_Frame
    /\ faults < MaxFaults
    /\ faults' = faults + 1
    /\ UNCHANGED <<now, restart_history, restart_count, workers, launches,
                   sent, running, heartbeat, lastAdmit, interrupts>>

\* time.sleep(30) after a successful restart
M_Stabilize ==
    /\ M_at("Stabilize")
    /\ CanSleep(stabilize_sleep)
    /\ now' = now + stabilize_sleep
    /\ pc' = "CycleSleep"
    /\ M_Frame
    /\ UNCHANGED faults
    /\ UNCHANGED <<restart_history, restart_count, workers, launches,
                   sent, running, heartbeat, notification, lastAdmit,
                   interrupts>>

\* time.sleep(self.check_interval) at the end of the cycle
M_CycleSleep ==
    /\ M_at("CycleSleep")
    /\ CanSleep(check_interval)
    /\ now' = now + check_interval
    /\ pc' = "Probe"
    /\ heartbeat' = NoHeartbeat
    /\ M_Frame
    /\ UNCHANGED faults
    /\ UNCHANGED <<restart_history, restart_count, workers, launches,
                   sent, running, notification, lastAdmit, interrupts>>

\* except Exception: an error other than KeyboardInterrupt raised in a cycle
M_CycleError ==
    /\ M_at("Probe")
    /\ pc' = "ErrorSleep"
    /\ M_Frame
    /\ faults < MaxFaults
    /\ faults' = faults + 1
    /\ UNCHANGED <<now, restart_history, restart_count, workers, launches,
                   sent, running, heartbeat, notification, lastAdmit,
                   interrupts>>

\* ... self.log(...); time.sleep(self.check_interval)
M_ErrorSleep ==
    /\ M_at("ErrorSleep")
    /\ CanSleep(check_interval)
    /\ now' = now + check_interval
    /\ pc' = "Probe"
    /\ M_Frame
    /\ UNCHANGED faults
    /\ UNCHANGED <<restart_history, restart_count, workers, launches,
                   sent, running, heartbeat, notification, lastAdmit,
                   interrupts>>

\* the positions of monitor_loop()'s while loop
M_LoopPcs == {"Probe", "Unhealthy", "Denied", "Restarting", "Launching",
              "Stabilize", "CycleSleep", "ErrorSleep"}

\* except KeyboardInterrupt: self.running = False; break -- and main()'s
\* finally: monitor.stop()
M_KeyboardInterrupt ==
    /\ prog = "monitor"
    /\ pc \in M_LoopPcs
    /\ Len(interrupts) < MaxInterrupts
    /\ interrupts' = Append(interrupts, pc)
    /\ running' = FALSE
    /\ pc' = "Stopped"
    /\ M_Frame
    /\ UNCHANGED faults
    /\ UNCHANGED <<now, restart_history, restart_count, workers, launches,
                   sent, heartbeat, notification, lastAdmit>>

M_Init ==
    /\ prog = "monitor"
    /\ pc = "Probe"
    /\ now = 0
    /\ restart_times = <<>>
    /\ restart_history = <<>>
    /\ restart_count = 0
    /\ process = None
    /\ workers = {}
    /\ hung = {}
    /\ launches = <<>>
    /\ sent = NoStop
    /\ stop_dialog_killer = FALSE
    /\ dialog_killer = "none"
    /\ error_dialog = FALSE
    /\ running = TRUE
    /\ heartbeat = NoHeartbeat
    /\ notification = NoNotification
    /\ lastAdmit = NoAdmit
    /\ interrupts = <<>>
    /\ faults = 0
    /\ scan = NoScan

----------------------------------------------------------------------------
(* The admission checks on arbitrary histories *)

L_Frame == UNCHANGED <<prog, now, restart_count, process, workers, hung, launches,
                       sent, stop_dialog_killer, dialog_killer,
                       error_dialog, running, heartbeat, notification,
                       interrupts, scan>>

\* WatchdogGuardian.is_too_many_restarts() on the drawn history
L_IsTooManyRestarts ==
    /\ prog = "limiter"
    /\ pc = "Ready"
    /\ LET verdict == is_too_many_restarts(restart_times, now)
       IN  /\ restart_times' = verdict.times
           /\ lastAdmit' = [by |-> "guardian", before |-> restart_times,
                            at |-> now, denied |-> verdict.too_many,
                            launched |-> Len(launches)]
    /\ pc' = "CheckedGuardian"
    /\ L_Frame
    /\ UNCHANGED faults
    /\ UNCHANGED restart_history

\* WatchdogMonitor.check_restart_limit() on the drawn history
L_CheckRestartLimit ==
    /\ prog = "limiter"
    /\ pc = "Ready"
    /\ LET verdict == check_restart_limit(restart_history, now)
       IN  /\ restart_history' = verdict.history
           /\ lastAdmit' = [by |-> "monitor", before |-> restart_history,
                            at |-> now, denied |-> ~verdict.can_restart,
                            launched |-> Len(launches)]
    /\ pc' = "CheckedMonitor"
    /\ L_Frame
    /\ UNCHANGED faults
    /\ UNCHANGED restart_times

L_Init ==
    /\ prog = "limiter"
    /\ pc = "Ready"
    /\ now \in 0..MaxTime
    /\ restart_times \in {h \in Histories(MaxHist, now) : IsChronological(h)}
    /\ restart_history = restart_times
    /\ restart_count = 0
    /\ process = None
    /\ workers = {}
    /\ hung = {}
    /\ launches = <<>>
    /\ sent = NoStop
    /\ stop_dialog_killer = FALSE
    /\ dialog_killer = "none"
    /\ error_dialog = FALSE
    /\ running = TRUE
    /\ heartbeat = NoHeartbeat
    /\ notification = NoNotification
    /\ lastAdmit = NoAdmit
    /\ interrupts = <<>>
    /\ faults = 0
    /\ scan = NoScan

----------------------------------------------------------------------------
(* check_process_exists on arbitrary process tables *)

\* what psutil.process_iter can hand to the loop for one process: reading
\* the entry raises NoSuchProcess (the process vanished) or AccessDenied, or
\* it gives a command line of argc elements (0: None or empty) in which
\* 'python' is or is not part of the first element and the main script is
\* or is not part of the joined line.  The pid of entry i is i.
ProcEntries ==
    {[raises |-> r, argc |-> 0, python |-> FALSE, script |-> FALSE] :
        r \in {"NoSuchProcess", "AccessDenied", "none"}}
    \cup {[raises |-> "none", argc |-> 1, python |-> TRUE, script |-> TRUE]}
    \cup {[raises |-> "none", argc |-> 2, python |-> py, script |-> sc] :
             py \in BOOLEAN, sc \in BOOLEAN}

\* the loop with `except: return False, None` for the inner handler
RECURSIVE ScanAborting(_, _)
ScanAborting(table, i) ==
    IF i > Len(table) THEN NoMatch
    ELSE IF table[i].raises # "none" THEN NoMatch
    ELSE IF /\ table[i].argc >= 2
            /\ table[i].python /\ table[i].script
         THEN [exists |-> TRUE, pid |-> i]
         ELSE ScanAborting(table, i + 1)

\* for proc in psutil.process_iter(...), from entry i on: return True, pid
\* at the first match; continue on NoSuchProcess and AccessDenied; return
\* False, None at the end
RECURSIVE scan_from(_, _)
scan_from(table, i) ==
    IF i > Len(table) THEN NoMatch
    ELSE IF table[i].raises # "none" THEN scan_from(table, i + 1)
    ELSE IF /\ table[i].argc >= 2
            /\ table[i].python /\ table[i].script
         THEN [exists |-> TRUE, pid |-> i]
         ELSE scan_from(table, i + 1)

\* process tables of at most n entries
RECURSIVE Tables(_)
Tables(n) ==
    IF n = 0 THEN {<<>>}
    ELSE Tables(n - 1) \cup
         {Append(t, e) : t \in {u \in Tables(n - 1) : Len(u) = n - 1},
                         e \in ProcEntries}

S_Frame == UNCHANGED <<prog, now, restart_times, restart_history,
                       restart_count, process, workers, hung, launches, sent,
                       stop_dialog_killer, dialog_killer, error_dialog,
                       running, heartbeat, notification, lastAdmit,
                       interrupts, faults>>

\* WatchdogMonitor.check_process_exists() on the drawn table
S_CheckProcessExists ==
    /\ prog = "scanner"
    /\ pc = "Ready"
    /\ scan' = [scan EXCEPT !.result = scan_from(scan.table, 1)]
    /\ pc' = "Scanned"
    /\ S_Frame

S_Init ==
    /\ prog = "scanner"
    /\ pc = "Ready"
    /\ now = 0
    /\ restart_times = <<>>
    /\ restart_history = <<>>
    /\ restart_count = 0
    /\ process = None
    /\ workers = {}
    /\ hung = {}
    /\ launches = <<>>
    /\ sent = NoStop
    /\ stop_dialog_killer = FALSE
    /\ dialog_killer = "none"
    /\ error_dialog = FALSE
    /\ running = TRUE
    /\ heartbeat = NoHeartbeat
    /\ notification = NoNotification
    /\ lastAdmit = NoAdmit
    /\ interrupts = <<>>
    /\ faults = 0
    /\ scan \in {[table |-> t, result |-> NoMatch] : t \in Tables(MaxProcs)}

----------------------------------------------------------------------------
(* Specification *)

Init == G_Init \/ M_Init \/ L_Init \/ S_Init

Next ==
    \/ WorkerExit \/ WorkerHangs
    \/ G_StartOk \/ G_StartFail \/ G_StartRetrySleep
    \/ G_PollExited \/ G_PollAlive \/ G_PollSleep
    \/ G_RecordRestart \/ G_BackingOff \/ G_RestartDelay
    \/ G_KeyboardInterrupt \/ G_InterruptInMonitorOutput
    \/ G_StopWait
    \/ DialogAppears \/ D_Test \/ D_EnumWindows \/ D_StartupError
    \/ M_Probe \/ M_CheckLimit \/ M_Denied
    \/ M_StopNone \/ M_StopExited \/ M_StopTimeout \/ M_StopError \/ M_StopVanished
    \/ M_LaunchOk \/ M_LaunchFail \/ M_Stabilize \/ M_CycleSleep
    \/ M_CycleError \/ M_ErrorSleep \/ M_KeyboardInterrupt
    \/ L_IsTooManyRestarts \/ L_CheckRestartLimit
    \/ S_CheckProcessExists

Spec == Init /\ [][Next]_vars

\* the steps of the main thread of either supervisor when Popen does not
\* fail and no KeyboardInterrupt arrives
LoopStep ==
    \/ G_StartOk
    \/ G_PollExited \/ G_PollAlive \/ G_PollSleep
    \/ G_RecordRestart \/ G_BackingOff \/ G_RestartDelay
    \/ M_Probe \/ M_CheckLimit \/ M_Denied
    \/ M_StopNone \/ M_StopExited \/ M_StopTimeout \/ M_StopError \/ M_StopVanished
    \/ M_LaunchOk \/ M_Stabilize \/ M_CycleSleep
    \/ M_CycleError \/ M_ErrorSleep

LiveNext == WorkerExit \/ WorkerHangs \/ LoopStep

\* a supervisor whose main thread keeps running: a sleep returns, the
\* statement after it is executed
LiveSpec == (G_Init \/ M_Init) /\ [][LiveNext]_vars /\ WF_vars(LoopStep)

----------------------------------------------------------------------------
(* Properties *)

\* the history the running program keeps
History == IF prog = "monitor" THEN restart_history ELSE restart_times

\* the limit of the check that made the decision
LimitOf(by) == IF by = "guardian" THEN g_max_restarts_per_hour
               ELSE m_max_restarts_per_hour

\* how many events of a history are younger than one hour at time cur
RecentCount(history, cur) ==
    Cardinality({i \in DOMAIN history : cur - history[i] < OneHour})

\* C1: the admission check (check_restart_limit, is_too_many_restarts)
\* reports Denied if and only if the number of recorded restarts that are
\* still inside the trailing one-hour window is at least the configured
\* maximum, whatever the history and the time.
C1_DeniedIffWindowFull ==
    lastAdmit.by # "none" =>
        (lastAdmit.denied <=>
            RecentCount(lastAdmit.before, lastAdmit.at) >= LimitOf(lastAdmit.by))

\* a denial of a history that also held an expired event
C1_Witness ==
    /\ prog = "limiter"
    /\ lastAdmit.by = "guardian"
    /\ lastAdmit.denied
    /\ Len(lastAdmit.before) > g_max_restarts_per_hour
    /\ Len(restart_times) = g_max_restarts_per_hour

\* the delay the loop keeps between two launches: restart_delay in the
\* guardian; in the monitor the sleeps that follow a successful restart
RestartDelay == IF prog = "monitor" THEN stabilize_sleep + check_interval
                ELSE restart_delay

\* C2: the supervisor loop never launches two workers at times closer
\* together than the restart delay, whatever the probe outcomes.
C2_LaunchesSpaced ==
    Supervising =>
        \A i \in 1..(Len(launches) - 1) :
            launches[i + 1] - launches[i] >= RestartDelay

\* the guardian relaunched a crashed worker exactly restart_delay later
C2_Witness ==
    /\ prog = "guardian"
    /\ Len(launches) >= 2
    /\ launches[2] - launches[1] = restart_delay
    /\ lastAdmit.by = "guardian"
    /\ ~lastAdmit.denied

\* the launches made since the last admission decision
LaunchesSinceAdmit == {i \in DOMAIN launches : i > lastAdmit.launched}

\* the positions at which the loop is about to try a (re)start again
RetryPcs == {"Starting", "Unhealthy"}

\* what the backoff of a denied restart guarantees: no launch within one
\* hour of the denial, and an empty history when the loop tries again
BackedOff ==
    /\ \A i \in LaunchesSinceAdmit : launches[i] >= lastAdmit.at + OneHour
    /\ pc \in RetryPcs => now >= lastAdmit.at + OneHour /\ History = <<>>

C4_FailedStartsNotRecorded ==
    Supervising =>
        /\ Len(History) <= Len(launches)
        /\ launches = <<>> => History = <<>> /\ ~lastAdmit.denied

\* the guardian after MaxFaults consecutive start failures and nothing else
C4_Witness ==
    /\ prog = "guardian"
    /\ launches = <<>>
    /\ faults = MaxFaults
    /\ faults >= 2
    /\ pc = "StartRetry"
    /\ now = (MaxFaults - 1) * restart_delay
    /\ restart_times = <<>>
    /\ ~lastAdmit.denied

\* a stop sequence has just run to its end: the monitor is past the
\* terminate-and-wait of restart_main_program, the guardian has left its
\* KeyboardInterrupt handler
StopDone ==
    /\ sent.pid # None
    /\ \/ prog = "monitor" /\ pc = "Launching"
       \/ prog = "guardian" /\ pc = "Stopped"

\* C5: whenever the supervisor stops a worker (before a restart, on
\* shutdown) the stop is two-phase and always completes: terminate, wait at
\* most the grace period, kill if the worker is still alive; the stop never
\* ends with the worker still running.
C5_StopAlwaysCompletes ==
    StopDone =>
        /\ sent.pid \notin workers
        /\ sent.signals # <<>> /\ sent.signals[1] = "terminate"

\* the positions the design calls Running: a worker was started and the
\* loop polls it or sleeps between two probe cycles
RunningPcs == IF prog = "guardian" THEN {"Running", "PollSleep"}
              ELSE {"Stabilize", "CycleSleep", "Probe"}

\* C6: a KeyboardInterrupt that arrives while the loop is in Running (also
\* while it sleeps between probes) takes the loop directly to Stopped, with
\* the graceful-then-forced stop of the worker, and the loop does not exit
\* with the worker still running.
C6_InterruptStopsWorker ==
    Supervising /\ interrupts # <<>> /\ interrupts[1] \in RunningPcs =>
        /\ pc \in {"StopWait", "Stopped"}
        /\ pc = "Stopped" => workers = {}

\* C8: the supervisor loop exits only on an explicit cancellation signal:
\* whatever a cycle met (a failed start, a failed stop, a denial, a failed
\* notification, another error), the loop is left, and the monitor's
\* running flag is cleared, only after a KeyboardInterrupt.
C8_ExitOnlyOnInterrupt ==
    Supervising =>
        /\ pc \in {"StopWait", "Stopped"} => interrupts # <<>>
        /\ ~running => interrupts # <<>>

\* the monitor still looping after faults, a failed stop and a denial
C8_Witness ==
    /\ prog = "monitor"
    /\ faults = MaxFaults
    /\ lastAdmit.denied
    /\ Cardinality(workers) > 1
    /\ pc = "Probe"
    /\ running
    /\ interrupts = <<>>

\* C9: the supervisor supervises one worker at a time: at most one worker
\* process it launched is alive, a new worker is never launched while the
\* previous one is still running.
C9_OneWorker ==
    Supervising => Cardinality(workers) <= 1

\* the history the last admission decision left behind, and the positions
\* at which nothing has touched it since
PrunedHistory == IF lastAdmit.by = "monitor" THEN restart_history
                 ELSE restart_times
AfterAdmitPcs == {"BackingOff", "Restarting", "Denied", "CheckedGuardian",
                  "CheckedMonitor"}

\* C10: after every admission decision the history holds exactly the
\* events strictly inside the trailing one-hour window, in their order: an
\* event whose age is exactly one hour is removed, every younger event is
\* kept.
C10_PrunedToWindow ==
    pc \in AfterAdmitPcs =>
        LET before == lastAdmit.before
            kept == {i \in DOMAIN before : lastAdmit.at - before[i] < OneHour}
            k == Cardinality(kept)
        IN  /\ Len(PrunedHistory) = k
            /\ \A j \in 1..k :
                  PrunedHistory[j] = before[Len(before) - k + j]
            /\ \A j \in DOMAIN PrunedHistory :
                  lastAdmit.at - PrunedHistory[j] < OneHour
            /\ \A i \in DOMAIN before :
                  lastAdmit.at - before[i] = OneHour =>
                      \A j \in DOMAIN PrunedHistory : PrunedHistory[j] # before[i]

\* a running supervisor pruned an event exactly one hour old and kept a
\* younger one
C10_Witness ==
    /\ Supervising
    /\ pc \in AfterAdmitPcs
    /\ \E i \in DOMAIN lastAdmit.before :
          lastAdmit.at - lastAdmit.before[i] = OneHour
    /\ PrunedHistory # <<>>
    /\ Len(PrunedHistory) < Len(lastAdmit.before)

\* the worst-case time the guardian still sleeps before it is at Starting
G_Need ==
    (IF pc = "PollSleep" THEN poll_sleep ELSE 0)
    + (IF pc \in {"Running", "PollSleep", "Unhealthy"}
       THEN (IF Len(restart_times) + 1 >= g_max_restarts_per_hour
             THEN OneHour ELSE restart_delay)
       ELSE IF pc = "BackingOff" THEN OneHour
       ELSE IF pc = "Restarting" THEN restart_delay
       ELSE 0)

\* the latest time at which the monitor, its worker gone, is at Launching:
\* its next probe or the expiry of the event that fills the window,
\* whichever is later, plus one cycle for each error a cycle can still meet
M_NextProbe ==
    IF pc = "Stabilize" THEN now + stabilize_sleep + check_interval
    ELSE IF pc \in {"CycleSleep", "ErrorSleep", "Denied"}
         THEN now + check_interval
         ELSE now
M_Expiry ==
    IF Len(restart_history) >= m_max_restarts_per_hour
    THEN restart_history[Len(restart_history) - m_max_restarts_per_hour + 1]
         + OneHour
    ELSE 0
M_Latest ==
    (IF M_NextProbe >= M_Expiry THEN M_NextProbe ELSE M_Expiry)
    + (1 + MaxFaults - faults) * check_interval

G_WorkerGone ==
    /\ prog = "guardian"
    /\ pc \in {"Running", "PollSleep", "Unhealthy", "BackingOff", "Restarting"}
    /\ process \notin workers
    /\ now + G_Need <= MaxTime

M_WorkerGone ==
    /\ prog = "monitor"
    /\ pc \in M_LoopPcs \ {"Launching", "Restarting"}
    /\ workers = {}
    /\ M_Latest <= MaxTime

M_Admitted ==
    /\ prog = "monitor"
    /\ pc = "Restarting"
    /\ now + terminate_timeout <= MaxTime

\* the guardian polls a worker that runs and has stopped making progress
G_WorkerHung ==
    /\ prog = "guardian"
    /\ pc \in {"Running", "PollSleep"}
    /\ process \in workers \cap hung

----------------------------------------------------------------------------
(* The probe: heartbeat check and restart decision *)

\* heartbeat is set by M_Probe and reset before the clock moves again, so
\* wherever a file is on record `now` is the time of the probe that read it
ProbeOnRecord == prog = "monitor" /\ heartbeat.kind # "unread"

\* C11: staleness is strict: a readable heartbeat whose elapsed time (now
\* minus its timestamp) is at most the heartbeat timeout, the timeout itself
\* included, is classified alive, and one whose elapsed time is above the
\* timeout is classified stale.
C11_StaleIffPastTimeout ==
    (ProbeOnRecord /\ heartbeat.kind = "ok") =>
        LET elapsed == now - heartbeat.timestamp
        IN  /\ elapsed <= heartbeat_timeout =>
                heartbeat.ok /\ heartbeat.msg = "alive"
            /\ elapsed > heartbeat_timeout =>
                ~heartbeat.ok /\ heartbeat.msg = "timeout"

\* a heartbeat exactly heartbeat_timeout old has been found alive
C11_Witness ==
    /\ ProbeOnRecord
    /\ heartbeat.kind = "ok"
    /\ now - heartbeat.timestamp = heartbeat_timeout
    /\ heartbeat.ok
    /\ workers # {}
    /\ pc = "CycleSleep"

\* the heartbeat on record is alive: readable and not older than the timeout
Alive(h, cur) == h.kind = "ok" /\ cur - h.timestamp <= heartbeat_timeout

Malformed ==
    {"absent", "unparsable", "not_object", "no_timestamp", "bad_timestamp"}

----------------------------------------------------------------------------
(* The stop sequence on a worker that has exited *)

\* C14: the stop sequence on a worker that has already exited raises no
\* error and sends no signal: the guardian's handler goes straight to the
\* end, the monitor's restart goes on to the launch.  When the worker exits
\* during the grace period after the graceful request, no kill follows.
C14_StopIdempotent ==
    [][ /\ (prog = "guardian" /\ pc \in G_TryPcs
              /\ pc' \in {"StopWait", "Stopped"} /\ process \notin workers) =>
            /\ pc' = "Stopped"
            /\ sent' = sent
            /\ faults' = faults
        /\ (G_at("StopWait") /\ pc' = "Stopped" /\ process \notin workers) =>
            sent'.signals = <<"terminate">>
        /\ (M_at("Restarting") /\ pc' = "Launching") =>
            /\ workers = {} => sent'.signals = <<>>
            /\ sent'.pid \notin workers => sent'.signals = <<>>
            /\ (sent'.pid \in workers /\ sent'.pid \notin workers') =>
                   sent'.signals \in {<<>>, <<"terminate">>}
            /\ faults' = faults
      ]_vars

\* the guardian has stopped a worker that exited during the grace period
C14_Witness ==
    /\ prog = "guardian"
    /\ pc = "Stopped"
    /\ sent.pid = process
    /\ sent.signals = <<"terminate">>
    /\ process \notin workers


----------------------------------------------------------------------------
(* Notifications *)

\* a step of restart_main_program() that calls send_restart_notification()
Notifies == M_at("Launching") /\ notification'.kind # "none"

\* C15: notification is best-effort: what a restart attempt returns (True:
\* the loop goes on to the stabilising sleep; False: to the sleep of the
\* cycle), the restart history and the restart counter are fixed by the
\* outcome of the launch alone, whether the notifier delivers or raises.
C15_NotificationBestEffort ==
    [][ Notifies =>
          \A delivered \in BOOLEAN :
             notification'.delivered = delivered =>
                IF notification'.kind = "success"
                THEN /\ pc' = "Stabilize"
                     /\ restart_count' = restart_count + 1
                     /\ restart_history' = Append(restart_history, now)
                     /\ faults' = faults
                ELSE /\ pc' = "CycleSleep"
                     /\ restart_count' = restart_count
                     /\ restart_history' = restart_history
      ]_vars

\* a restart has succeeded and its notification could not be sent
C15_Witness ==
    /\ prog = "monitor"
    /\ pc = "Stabilize"
    /\ notification.kind = "success"
    /\ ~notification.delivered
    /\ restart_count = Len(launches)

\* C16: every restart decision -- a restart that succeeded, one that failed,
\* one that the limiter denied -- emits one notification: success with the
\* pid of the new process, or failure.
C16_EveryDecisionNotified ==
    [][ /\ (prog = "monitor" /\ pc \in {"Launching", "Denied"}
              /\ pc' \in {"Stabilize", "CycleSleep"}) =>
            /\ notification'.kind \in {"success", "failure"}
            /\ notification'.kind = "success" =>
                   notification'.pid = Len(launches')
        /\ (G_at("Unhealthy") /\ pc' \in {"Restarting", "BackingOff"}) =>
            notification'.kind \in {"success", "failure"}
      ]_vars


----------------------------------------------------------------------------
(* The DialogKiller thread beside the main loop *)

\* C17: under every interleaving of run() with the DialogKiller thread, a
\* step of the thread leaves the worker handle, the restart times and the
\* stop flag as they are (it only reads the flag); these are written by
\* steps of the loop thread alone, and so is every admission decision: no
\* two restart decisions run at once.
C17_ThreadOnlyReadsFlag ==
    [][ /\ dialog_killer' # dialog_killer =>
            UNCHANGED <<process, restart_times, stop_dialog_killer, pc,
                        restart_count, lastAdmit>>
        /\ (prog = "guardian"
              /\ \/ process' # process
                 \/ restart_times' # restart_times
                 \/ stop_dialog_killer' # stop_dialog_killer
                 \/ lastAdmit' # lastAdmit) =>
            /\ pc' # pc
            /\ dialog_killer' = dialog_killer
        /\ (prog = "guardian" /\ lastAdmit' # lastAdmit) => pc = "Unhealthy"
      ]_vars

\* the loop has recorded a restart and was interrupted; the thread has read
\* the flag the handler set and has left its loop
C17_Witness ==
    /\ prog = "guardian"
    /\ pc = "Stopped"
    /\ stop_dialog_killer
    /\ dialog_killer = "done"
    /\ restart_times # <<>>
    /\ process # None


----------------------------------------------------------------------------
(* The admission decision in the loops *)

\* the restarts on record when the worker was found unhealthy or exited:
\* the guardian has appended the event under decision before it asks
\* is_too_many_restarts(), the monitor appends after the launch
RecordedBefore ==
    IF lastAdmit.by = "guardian"
    THEN SubSeq(lastAdmit.before, 1, Len(lastAdmit.before) - 1)
    ELSE lastAdmit.before

\* C18: when the worker is found unhealthy or exited, the loop backs off
\* (denies the restart) only if the restarts already recorded inside the
\* trailing window number at least the configured maximum; with fewer on
\* record the restart is admitted, so that the loop performs up to the
\* maximum number of restarts per window before it backs off.
C18_BackoffOnlyWhenQuotaUsed ==
    (Supervising /\ lastAdmit.by # "none") =>
        (lastAdmit.denied <=>
            RecentCount(RecordedBefore, lastAdmit.at) >= LimitOf(lastAdmit.by))


----------------------------------------------------------------------------
(* Retrying a failed start *)

\* C19: when start_watchdog() fails the guardian stays in Starting -- it
\* only sleeps (StartRetry) -- and comes to its next start attempt no
\* earlier than restart_delay after the failure; in between it visits
\* nothing else, Stopped (on KeyboardInterrupt) aside.
C19_StartRetryDelayed ==
    [][ /\ (G_at("Starting") /\ faults' # faults) =>
            pc' = "StartRetry" /\ now' = now
        /\ G_at("StartRetry") =>
            /\ pc' \in {"StartRetry", "Starting", "Stopped"}
            /\ pc' = "Starting" => now' >= now + restart_delay
            /\ pc' = "StartRetry" => now' = now
      ]_vars

\* the guardian is at its next start attempt after two failed starts
C19_Witness ==
    /\ prog = "guardian"
    /\ pc = "Starting"
    /\ launches = <<>>
    /\ faults >= 2
    /\ now = faults * restart_delay


----------------------------------------------------------------------------
(* The process-table scan *)

\* an entry whose command line matches the worker script
IsWorkerEntry(e) ==
    e.raises = "none" /\ e.argc >= 2 /\ e.python /\ e.script

MatchingEntries == {i \in DOMAIN scan.table : IsWorkerEntry(scan.table[i])}

\* C20: the scan returns the pid of the first entry, in enumeration order,
\* whose command line matches the worker script, and none when no entry
\* matches; an entry that has vanished or whose access is denied is no
\* match and does not end the scan: a match that comes after it is found.
C20_FirstMatchFound ==
    (prog = "scanner" /\ pc = "Scanned") =>
        IF MatchingEntries = {}
        THEN scan.result = NoMatch
        ELSE /\ scan.result.exists
             /\ scan.result.pid \in MatchingEntries
             /\ \A i \in MatchingEntries : scan.result.pid <= i

\* a vanished entry, a denied one, then the worker: the worker is found
C20_Witness ==
    /\ prog = "scanner"
    /\ pc = "Scanned"
    /\ Len(scan.table) = MaxProcs
    /\ scan.table[1].raises = "NoSuchProcess"
    /\ scan.table[2].raises = "AccessDenied"
    /\ scan.result = [exists |-> TRUE, pid |-> MaxProcs]


----------------------------------------------------------------------------
(* Frame of a denial; size of the history; restarts per window *)

\* the events of a history that are younger than one hour at time cur
Unexpired(history, cur) ==
    SelectSeq(history, LAMBDA t : cur - t < OneHour)

\* C21: a restart the limiter denies in restart_main_program() has no effect
\* on the worker or the counters: no termination request is sent and no
\* worker is stopped, nothing is launched, restart_count is unchanged, and
\* restart_history loses its expired events and nothing else.
C21_DenialChangesNothing ==
    [][ /\ (M_at("Unhealthy") /\ pc' = "Denied") =>
            /\ workers' = workers
            /\ launches' = launches
            /\ restart_count' = restart_count
            /\ restart_history' = Unexpired(restart_history, now)
            /\ sent' = NoStop
        /\ M_at("Denied") =>
            /\ pc' \in {"Denied", "CycleSleep", "Stopped"}
            /\ workers' \subseteq workers
            /\ launches' = launches
            /\ restart_count' = restart_count
            /\ restart_history' = restart_history
            /\ sent' = sent
      ]_vars

\* a restart was denied while the worker, its heartbeat stale, still runs
C21_Witness ==
    /\ prog = "monitor"
    /\ pc = "CycleSleep"
    /\ lastAdmit.denied
    /\ lastAdmit.at = now
    /\ workers # {}
    /\ sent = NoStop
    /\ Len(restart_history) = m_max_restarts_per_hour

\* C22: in every reachable state of either supervisor the restart history
\* (restart_times, restart_history) holds at most the configured maximum
\* of restarts per hour.
C22_HistoryBounded ==
    Supervising => Len(History) <= LimitOf(prog)

\* the guardian holds a full history: it is about to back off
C22_Witness ==
    /\ prog = "guardian"
    /\ pc = "BackingOff"
    /\ Len(restart_times) = g_max_restarts_per_hour

\* the launches that are restarts: all of the monitor's, and all of the
\* guardian's but the first start
Restarts ==
    {i \in DOMAIN launches : prog = "monitor" \/ i > 1}

\* the restarts performed in the hour that ends with restart i
RestartsInWindow(i) ==
    {j \in Restarts : launches[j] <= launches[i]
                      /\ launches[i] - launches[j] < OneHour}

\* C23: whatever the crashes and the probe outcomes, the restarts the
\* supervisor has performed inside any trailing one-hour window number at
\* most the configured maximum, also when a backoff has cleared the
\* history in between.
C23_RestartsPerWindowBounded ==
    Supervising =>
        \A i \in Restarts : Cardinality(RestartsInWindow(i)) <= LimitOf(prog)

\* the guardian has restarted the worker again after a backoff cleared the
\* history, and holds fewer events than it has performed restarts
C23_Witness ==
    /\ prog = "guardian"
    /\ Len(launches) >= 4
    /\ launches[3] - launches[2] >= OneHour
    /\ Len(restart_times) < Cardinality(Restarts)

====
